---- MODULE Spec2Model ----
(***************************************************************************)
(* A model of pkg/srvconn/sftpfile.go of koko: the virtual SFTP file       *)
(* system made of NodeDir, AssetDir and SearchResultDir.                   *)
(*                                                                         *)
(* Strings are sequences of one-character strings, so that the string      *)
(* operations of the code (TrimPrefix, Split, Join, ReplaceAll, ToLower,   *)
(* Sprintf("%s_"), filepath.Join) are computed and not assumed.            *)
(***************************************************************************)
EXTENDS Integers, Sequences, FiniteSets, TLC

(***************************************************************************)
(* Bounds of the model.                                                    *)
(***************************************************************************)
\* operations a client sends one after the other to the same AssetDir
MaxOps == 2
\* depth of the directories below the directory RemoveDirectory is given
MaxTreeDepth == 1
\* calls of NodeDir.loadNodeAsset in one behaviour
MaxLoadCalls == 3
\* capacity of the audit channel the collector owns
LogChanCap == 1
\* entries a remote directory lists
MaxEntries == 1
\* items the directory service lists under a node
MaxItems == 3

(***************************************************************************)
(* Strings.                                                                *)
(***************************************************************************)
Slash == "/"
Underscore == "_"

\* strings.TrimPrefix(s, "/")
TrimPrefix(s) ==
    IF Len(s) > 0 /\ s[1] = Slash THEN SubSeq(s, 2, Len(s)) ELSE s

\* strings.HasPrefix(s, "/"), written strings.Index(s, "/") == 0 in the code
HasSlashPrefix(s) == Len(s) > 0 /\ s[1] = Slash

\* strings.Split(s, "/"): always at least one element, "" splits into [""]
RECURSIVE SplitFrom(_, _, _)
SplitFrom(s, i, cur) ==
    IF i > Len(s) THEN <<cur>>
    ELSE IF s[i] = Slash THEN <<cur>> \o SplitFrom(s, i + 1, <<>>)
    ELSE SplitFrom(s, i + 1, Append(cur, s[i]))

Split(s) == SplitFrom(s, 1, <<>>)

\* strings.Join(elems, "/")
RECURSIVE JoinSlash(_)
JoinSlash(elems) ==
    IF Len(elems) = 0 THEN <<>>
    ELSE IF Len(elems) = 1 THEN elems[1]
    ELSE elems[1] \o <<Slash>> \o JoinSlash(Tail(elems))

\* strings.ReplaceAll(s, "/", "_")
ReplaceSlash(s) == [i \in 1..Len(s) |-> IF s[i] = Slash THEN Underscore ELSE s[i]]

\* fmt.Sprintf("%s_", s)
AppendUnderscore(s) == Append(s, Underscore)

\* strings.ToLower(s), on the letters the model's strings use
LowerChar(c) ==
    CASE c = "H" -> "h"
      [] c = "O" -> "o"
      [] c = "M" -> "m"
      [] c = "E" -> "e"
      [] c = "D" -> "d"
      [] c = "A" -> "a"
      [] c = "T" -> "t"
      [] OTHER -> c

ToLower(s) == [i \in 1..Len(s) |-> LowerChar(s[i])]

\* filepath.Clean on the elements of a path: "" and "." are dropped, ".."
\* removes the element before it, or is dropped at the root of a rooted path
RECURSIVE CleanElems(_, _, _)
CleanElems(elems, stack, rooted) ==
    IF Len(elems) = 0 THEN stack
    ELSE LET e == elems[1]
             rest == Tail(elems)
         IN  IF e = <<>> \/ e = <<".">> THEN CleanElems(rest, stack, rooted)
             ELSE IF e = <<".", ".">> THEN
                 IF Len(stack) > 0 /\ stack[Len(stack)] # <<".", ".">>
                 THEN CleanElems(rest, SubSeq(stack, 1, Len(stack) - 1), rooted)
                 ELSE IF rooted THEN CleanElems(rest, stack, rooted)
                 ELSE CleanElems(rest, Append(stack, e), rooted)
             ELSE CleanElems(rest, Append(stack, e), rooted)

\* filepath.Clean(s)
Clean(s) ==
    LET rooted == HasSlashPrefix(s)
        body == JoinSlash(CleanElems(Split(s), <<>>, rooted))
        out == IF rooted THEN <<Slash>> \o body ELSE body
    IN  IF out = <<>> THEN <<".">> ELSE out

\* filepath.Join(a, b): empty leading elements are ignored, the rest is
\* joined with "/" and cleaned; all empty gives ""
FilepathJoin(a, b) ==
    IF a # <<>> THEN Clean(a \o <<Slash>> \o b)
    ELSE IF b # <<>> THEN Clean(b)
    ELSE <<>>

(***************************************************************************)
(* The strings of the model.                                               *)
(***************************************************************************)
Empty == <<>>
NameA == <<"a">>
NameAU == <<"a", "_">>
NameASlash == <<"a", "/">>
NameB == <<"b">>
RootData == <<"d", "a", "t", "a">>
RootAbsData == <<"/", "d", "a", "t", "a">>
RootSrvData == <<"s", "r", "v", "/", "d", "a", "t", "a">>
RootTilde == <<"~">>
RootHome == <<"h", "o", "m", "e">>
RootHomeUpper == <<"H", "o", "m", "e">>
HomeHU == <<"/", "h", "/", "u">>

None == "none"

(***************************************************************************)
(* State.                                                                  *)
(***************************************************************************)
VARIABLES
    \* NodeDir
    nodeTrees,     \* what GetNodeTreeByUserAndNodeKey answers: an error or the items
    ndOnce,        \* nd.once: "new", "running" or "done"
    ndSubDirs,     \* nd.subDirs: folder name -> child
    ndPc,          \* where each caller of loadNodeAsset is
    ndFetches,     \* directory-service fetches issued by the NodeDir
    ndAssigns,     \* assignments to nd.subDirs
    ndCalls,       \* calls of loadNodeAsset so far
    \* AssetDir: credentials
    dirSystemUsers, \* what GetSystemUsersByUserIdAndAssetId answers: an error or the list
    adOnce,        \* ad.once
    sus,           \* the SystemUsers slice the map entries point into
    suMaps,        \* ad.suMaps: folder name -> index into sus (nil reads as empty)
    adFetches,     \* GetSystemUsersByUserIdAndAssetId calls issued
    \* AssetDir: configuration and callers
    reuse,         \* ad.reuse (conf.ReuseConnection)
    client,        \* the requests the SFTP client sends: operations and paths
    remote,        \* how large the tree under a remote directory may be
    opsLeft,       \* operations the client still sends
    call,          \* each goroutine's call in progress: position and locals
    \* AssetDir: connections
    mu,            \* ad.mu: None or the holder
    sftpClients,   \* ad.sftpClients: credential id -> connection
    adClosed,      \* ad.close() has run
    sshCache,      \* the process-wide cache of SSH clients: set of [id, username, client]
    clients,       \* the SSH clients in use: number -> client
    sessions,      \* the sessions acquired and not yet released: number -> session
    \* audit
    logChan        \* ad.logChan: the number of records sent and not yet received

nodeVars == <<nodeTrees, ndOnce, ndSubDirs, ndPc, ndFetches, ndAssigns, ndCalls>>
credVars == <<dirSystemUsers, adOnce, sus, suMaps, adFetches>>
cfgVars == <<reuse, client, remote>>
connVars == <<mu, sftpClients, adClosed, sshCache, clients, sessions>>
auditVars == <<logChan>>
assetVars == <<cfgVars, call, opsLeft, connVars, auditVars>>
vars == <<nodeVars, credVars, assetVars>>

\* the goroutines of the SFTP server that serve requests
Procs == {"p1", "p2"}

EmptyMap == [x \in {} |-> None]

(***************************************************************************)
(* sync.Once                                                               *)
(***************************************************************************)
\* a once.Do that lets a caller go on while the function still runs
OnceDo_ReturnsEarly(once) ==
    IF once = "new" THEN "run" ELSE "skip"

\* what once.Do makes of a caller: "run" the function, "wait" for the run in
\* progress, or "skip" because the function has run
OnceDo(once) ==
    CASE once = "new" -> "run"
      [] once = "running" -> "wait"
      [] OTHER -> "skip"

(***************************************************************************)
(* NodeDir                                                                 *)
(***************************************************************************)
\* a loop that keeps the name as it is
UniqueFolderName_NoSuffix(dirs, folderName) == folderName

\* the for { _, ok := dirs[folderName]; if !ok break; folderName += "_" } loop
RECURSIVE UniqueFolderName(_, _)
UniqueFolderName(dirs, folderName) ==
    IF folderName \in DOMAIN dirs
    THEN UniqueFolderName(dirs, AppendUnderscore(folderName))
    ELSE folderName

\* NewNodeDir and NewAssetDir: the folder name is the label with "/" replaced
NewFolderName(label) == ReplaceSlash(label)

\* an item of the tree is shown when it is enabled, its meta type is "node"
\* or "asset" and converts, and an asset supports ssh
Eligible(item) ==
    /\ ~item.disabled
    /\ \/ item.kind = "node"
       \/ item.kind = "asset" /\ item.ssh

MapPut(m, k, v) == [x \in DOMAIN m \cup {k} |-> IF x = k THEN v ELSE m[x]]

\* the loop over nodeTrees of loadNodeAsset, from item i on
RECURSIVE BuildDirs(_, _, _)
BuildDirs(items, i, dirs) ==
    IF i > Len(items) THEN dirs
    ELSE IF ~Eligible(items[i]) THEN BuildDirs(items, i + 1, dirs)
    ELSE LET folderName == UniqueFolderName(dirs, NewFolderName(items[i].label))
             child == [kind |-> items[i].kind, folderName |-> folderName, item |-> i]
         IN  BuildDirs(items, i + 1, MapPut(dirs, folderName, child))

\* loadNodeAsset: the call of nd.once.Do
LoadNodeAssetCall(p) ==
    /\ ndPc[p] \in {"idle", "ret"}
    /\ ndCalls < MaxLoadCalls
    /\ ndCalls' = ndCalls + 1
    /\ LET todo == OnceDo(ndOnce)
       IN  /\ ndPc' = [ndPc EXCEPT ![p] =
                          CASE todo = "run" -> "run"
                            [] todo = "wait" -> "wait"
                            [] OTHER -> "ret"]
           /\ ndOnce' = IF todo = "run" THEN "running" ELSE ndOnce
    /\ UNCHANGED <<nodeTrees, ndSubDirs, ndFetches, ndAssigns, credVars, assetVars>>

\* a load whose once is armed again when the fetch fails
LoadNodeAssetRun_RetryAfterError(p) ==
    /\ ndPc[p] = "run"
    /\ ndFetches' = ndFetches + 1
    /\ IF ~nodeTrees.ok
       THEN /\ ndOnce' = "new"
            /\ UNCHANGED <<ndSubDirs, ndAssigns>>
       ELSE /\ ndSubDirs' = BuildDirs(nodeTrees.list, 1, EmptyMap)
            /\ ndAssigns' = ndAssigns + 1
            /\ ndOnce' = "done"
    /\ ndPc' = [ndPc EXCEPT ![p] = "ret"]
    /\ UNCHANGED <<nodeTrees, ndCalls, credVars, assetVars>>

\* the function run once: the fetch, then the loop and the assignment
LoadNodeAssetRun(p) ==
    /\ ndPc[p] = "run"
    /\ ndFetches' = ndFetches + 1
    /\ IF ~nodeTrees.ok
       THEN UNCHANGED <<ndSubDirs, ndAssigns>>
       ELSE /\ ndSubDirs' = BuildDirs(nodeTrees.list, 1, EmptyMap)
            /\ ndAssigns' = ndAssigns + 1
    /\ ndOnce' = "done"
    /\ ndPc' = [ndPc EXCEPT ![p] = "ret"]
    /\ UNCHANGED <<nodeTrees, ndCalls, credVars, assetVars>>

\* a caller blocked in once.Do goes on when the run has finished
LoadNodeAssetWake(p) ==
    /\ ndPc[p] = "wait"
    /\ ndOnce = "done"
    /\ ndPc' = [ndPc EXCEPT ![p] = "ret"]
    /\ UNCHANGED <<nodeTrees, ndOnce, ndSubDirs, ndFetches, ndAssigns, ndCalls, credVars,
                   assetVars>>

(***************************************************************************)
(* AssetDir: credentials                                                   *)
(***************************************************************************)
\* ad.suMaps; the nil map NewAssetDir leaves reads as an empty one
SuMap == suMaps

\* the loop over SystemUsers of loadSystemUsers, from index i on
RECURSIVE BuildSus(_, _, _)
BuildSus(list, i, m) ==
    IF i > Len(list) THEN m
    ELSE IF list[i].Protocol # "ssh" THEN BuildSus(list, i + 1, m)
    ELSE LET folderName == UniqueFolderName(m, ReplaceSlash(list[i].Name))
         IN  BuildSus(list, i + 1, MapPut(m, folderName, i))

\* the locals of a call; arg1 and arg2 are the paths it was called with, hit
\* says that the last GetSFTPAndRealPath found the connection in
\* ad.sftpClients, up that the channel of the connection it returned was up
\* at that moment, nRemote counts the calls made on the SFTP client, logged
\* holds the is_success of the records sent, trace the remote calls of
\* removeDirectoryAll in the order they were made
IdleCall ==
    [pc |-> "idle", op |-> None, arg1 |-> <<>>, arg2 |-> <<>>,
     su |-> 0, path1 |-> <<>>, path2 |-> <<>>,
     which |-> 1, conn1 |-> 0, conn2 |-> 0, real1 |-> <<>>, real2 |-> <<>>,
     hit |-> FALSE, up |-> FALSE, err |-> None, nRemote |-> 0, logged |-> <<>>,
     client |-> 0, sess |-> 0, stack |-> <<>>, trace |-> <<>>]

\* loadSystemUsers: the call of ad.once.Do
LoadSystemUsersCall(p) ==
    /\ call[p].pc \in {"idle", "ret"}
    /\ LET todo == OnceDo(adOnce)
       IN  /\ call' = CASE todo = "run" -> [call EXCEPT ![p] = [IdleCall EXCEPT !.pc = "ld_run"]]
                     [] todo = "wait" -> [call EXCEPT ![p] = [IdleCall EXCEPT !.pc = "ld_wait"]]
                     [] OTHER -> call
           /\ adOnce' = IF todo = "run" THEN "running" ELSE adOnce
    /\ UNCHANGED <<nodeVars, dirSystemUsers, sus, suMaps, adFetches, cfgVars,
                   opsLeft, connVars, auditVars>>

\* the function run once: the fetch, the loop and the assignment of ad.suMaps.
\* The asset detail and the gateways fetched after it only feed the proxy
\* options of the SSH handshake, whose outcome is the environment's.
LoadSystemUsersRun(p) ==
    /\ call[p].pc = "ld_run"
    /\ adFetches' = adFetches + 1
    /\ IF ~dirSystemUsers.ok
       THEN UNCHANGED <<sus, suMaps>>
       ELSE /\ sus' = dirSystemUsers.list
            /\ suMaps' = BuildSus(dirSystemUsers.list, 1, EmptyMap)
    /\ adOnce' = "done"
    /\ call' = [call EXCEPT ![p].pc = "idle"]
    /\ UNCHANGED <<nodeVars, dirSystemUsers, cfgVars, opsLeft, connVars, auditVars>>

LoadSystemUsersWake(p) ==
    /\ call[p].pc = "ld_wait"
    /\ adOnce = "done"
    /\ call' = [call EXCEPT ![p].pc = "idle"]
    /\ UNCHANGED <<nodeVars, credVars, cfgVars, opsLeft, connVars, auditVars>>

(***************************************************************************)
(* AssetDir: from the path to the credential                               *)
(***************************************************************************)
ParsePath(path) == Split(TrimPrefix(path))

getSubFolderNames == DOMAIN SuMap

IsUniqueSu ==
    IF Cardinality(getSubFolderNames) = 1
    THEN [folderName |-> CHOOSE n \in getSubFolderNames : TRUE, ok |-> TRUE]
    ELSE [folderName |-> <<>>, ok |-> FALSE]

\* AssetDir.Mode: the permission bits, in octal, and os.ModeDir
Mode ==
    IF Cardinality(DOMAIN SuMap) > 1
    THEN [perm |-> "0444", dir |-> TRUE]
    ELSE [perm |-> "0644", dir |-> TRUE]

validatePermission(su, action) ==
    \E pemAction \in su.Actions : pemAction = action \/ pemAction = "all"

IsEmptyPath(pathData) == Len(pathData) = 1 /\ pathData[1] = <<>>

Ops == {"create", "mkdir_all", "open", "read_dir", "read_link",
        "remove_directory", "rename", "remove", "stat", "symlink"}

TwoPathOps == {"rename", "symlink"}

\* the operations that end in CreateFTPLog
AuditedOps == {"create", "mkdir_all", "open", "remove_directory", "rename",
               "remove", "symlink"}

\* the action each operation hands to validatePermission; Rename hands none
CheckedAction(op) ==
    CASE op \in {"create", "mkdir_all", "remove_directory", "remove", "symlink"} -> "upload"
      [] op = "open" -> "download"
      [] op \in {"read_dir", "read_link", "stat"} -> "connect"
      [] OTHER -> None

Failed(e) == [err |-> e, su |-> 0, path1 |-> <<>>, path2 |-> <<>>]

\* the credential lookup and the permission check the operations share
LookupAndCheck(op, folderName, rest1, rest2) ==
    IF folderName \notin DOMAIN SuMap THEN Failed("NoCredential")
    ELSE IF CheckedAction(op) # None
            /\ ~validatePermission(sus[SuMap[folderName]], CheckedAction(op))
    THEN [Failed("PermissionDenied") EXCEPT !.su = SuMap[folderName]]
    ELSE [err |-> None, su |-> SuMap[folderName],
          path1 |-> JoinSlash(rest1), path2 |-> JoinSlash(rest2)]

\* what the empty path gives before any credential is looked up: Stat and
\* ReadLink test it first, the others only when the credential layer shows
EmptyPathResult(op) ==
    CASE op \in {"create", "mkdir_all", "open", "remove_directory", "remove"} -> "PermissionDenied"
      [] op = "read_link" -> "OpUnsupported"
      [] OTHER -> "ok"

\* the one-path operations without their tests for the empty path
ResolveOne_NoEmptyPathTest(op, path) ==
    LET pathData == ParsePath(path)
        u == IsUniqueSu
    IN  IF u.ok THEN LookupAndCheck(op, u.folderName, pathData, <<>>)
        ELSE LookupAndCheck(op, pathData[1], Tail(pathData), <<>>)

\* Create, MkdirAll, Open, ReadDir, ReadLink, RemoveDirectory, Remove and Stat
\* up to the call of GetSFTPAndRealPath
ResolveOne(op, path) ==
    LET pathData == ParsePath(path)
        u == IsUniqueSu
    IN  IF op \in {"stat", "read_link"} /\ IsEmptyPath(pathData)
        THEN Failed(EmptyPathResult(op))
        ELSE IF u.ok THEN LookupAndCheck(op, u.folderName, pathData, <<>>)
        ELSE IF op \notin {"stat", "read_link"} /\ IsEmptyPath(pathData)
        THEN Failed(EmptyPathResult(op))
        ELSE LookupAndCheck(op, pathData[1], Tail(pathData), <<>>)

\* Rename and Symlink without the comparison of the first segments
ResolveTwo_NoSegmentTest(op, oldNamePath, newNamePath) ==
    LET oldPathData == ParsePath(oldNamePath)
        newPathData == ParsePath(newNamePath)
        u == IsUniqueSu
    IN  IF u.ok THEN LookupAndCheck(op, u.folderName, oldPathData, newPathData)
        ELSE LookupAndCheck(op, oldPathData[1], Tail(oldPathData), Tail(newPathData))

\* Rename and Symlink up to the first call of GetSFTPAndRealPath
ResolveTwo(op, oldNamePath, newNamePath) ==
    LET oldPathData == ParsePath(oldNamePath)
        newPathData == ParsePath(newNamePath)
        u == IsUniqueSu
    IN  IF u.ok THEN LookupAndCheck(op, u.folderName, oldPathData, newPathData)
        ELSE IF oldPathData[1] # newPathData[1]
        THEN Failed(IF op = "rename" THEN "NoSuchFile" ELSE "NoCredential")
        ELSE LookupAndCheck(op, oldPathData[1], Tail(oldPathData), Tail(newPathData))

Resolve(op, path, path2) ==
    IF op \in TwoPathOps THEN ResolveTwo(op, path, path2) ELSE ResolveOne(op, path)

\* an operation of the AssetDir is called; the caller has run loadSystemUsers
Start(p, op, path, path2) ==
    /\ call[p].pc \in {"idle", "ret"}
    /\ adOnce = "done"
    /\ op \in client.ops
    /\ path \in client.paths
    /\ path2 \in IF op \in TwoPathOps THEN client.paths ELSE {Empty}
    /\ opsLeft > 0
    /\ opsLeft' = opsLeft - 1
    /\ LET r == Resolve(op, path, path2)
       IN  call' = [call EXCEPT ![p] =
                [IdleCall EXCEPT !.op = op, !.arg1 = path, !.arg2 = path2,
                                 !.su = r.su,
                                 !.path1 = r.path1, !.path2 = r.path2,
                                 !.err = r.err,
                                 !.pc = IF r.err = None THEN "get" ELSE "ret"]]
    /\ UNCHANGED <<nodeVars, credVars, cfgVars, connVars, auditVars>>

(***************************************************************************)
(* AssetDir.GetSFTPAndRealPath                                             *)
(***************************************************************************)
\* the locals of one removeDirectoryAll: whether files is read, the items the
\* loop has still to visit and how many it has visited; dir is the place of
\* path in the tree, the indexes of the items from the root of the walk down
NewFrame(dir) == [listed |-> FALSE, entries |-> <<>>, dir |-> dir, visited |-> 0]

\* a switch on su.SftpRoot as it is written
IsHomeRoot_CaseSensitive(root) == root \in {RootHome, RootTilde, Empty}

\* case "home", "~", "" of the switch on strings.ToLower(su.SftpRoot)
IsHomeRoot(root) == ToLower(root) \in {RootHome, RootTilde, Empty}

\* the default case: su.SftpRoot is given a leading "/" when it has none

AbsoluteRoot(root) == IF HasSlashPrefix(root) THEN root ELSE <<Slash>> \o root

\* su.SftpRoot as the switch leaves it
SftpRootAfter(root) == IF IsHomeRoot(root) THEN root ELSE AbsoluteRoot(root)

\* realPath as the switch computes it

RealPath(root, home, path) ==
    IF IsHomeRoot(root) THEN FilepathJoin(home, TrimPrefix(path))
    ELSE FilepathJoin(AbsoluteRoot(root), TrimPrefix(path))

\* a lookup that finds nothing
CacheHit_Never(id) == FALSE

\* the lookup ad.sftpClients[su.ID]
CacheHit(id) == id \in DOMAIN sftpClients

\* a Lock that always goes through
MuFree_Always == TRUE

\* ad.mu.Lock() goes through when nobody holds the mutex
MuFree == mu = None

\* what the caller does with the pair GetSFTPAndRealPath returned: the
\* one-path operations test con == nil, Rename and Symlink only conn1 != conn2
\* before they use conn1.client
AfterGet(c, conn, real) ==
    IF c.op \in TwoPathOps
    THEN IF c.which = 1
         THEN [c EXCEPT !.pc = "get", !.which = 2, !.conn1 = conn, !.real1 = real,
                        !.client = 0, !.sess = 0]
         ELSE LET d == [c EXCEPT !.conn2 = conn, !.real2 = real,
                                 !.client = 0, !.sess = 0]
              IN  IF d.conn1 # d.conn2
                  THEN [d EXCEPT !.pc = "ret", !.err = "OpUnsupported"]
                  ELSE IF d.conn1 = 0
                  THEN [d EXCEPT !.pc = "ret", !.err = "panic"]
                  ELSE [d EXCEPT !.pc = "remote"]
    ELSE LET d == [c EXCEPT !.conn1 = conn, !.real1 = real, !.client = 0, !.sess = 0]
         IN  IF conn = 0
             THEN [d EXCEPT !.pc = "ret", !.err = "ConnectionLost"]
             ELSE IF c.op = "remove_directory"
             THEN [d EXCEPT !.pc = "rm", !.stack = <<NewFrame(<<>>)>>]
             ELSE [d EXCEPT !.pc = "remote"]

\* a call on the SFTP client answers only while its channel is up; a session
\* that has left the model had its channel ended
Alive(conn) == conn \in DOMAIN sessions /\ ~sessions[conn].ended

CurPath(c) == IF c.which = 1 THEN c.path1 ELSE c.path2

\* a failure that is stored: ad.sftpClients[su.ID] = conn with conn nil
GetFails_StoresNil(p, susNow) ==
    /\ call' = [call EXCEPT ![p] = AfterGet([call[p] EXCEPT !.hit = FALSE, !.up = FALSE], 0, <<>>)]
    /\ sus' = susNow
    /\ mu' = None
    /\ sftpClients' = MapPut(sftpClients, sus[call[p].su].ID, [sess |-> 0, home |-> <<>>])

\* GetSFTPAndRealPath returns nil, "": the mutex is released by the defer
GetFails(p, susNow) ==
    /\ call' = [call EXCEPT ![p] = AfterGet([call[p] EXCEPT !.hit = FALSE, !.up = FALSE], 0, <<>>)]
    /\ sus' = susNow
    /\ mu' = None
    /\ UNCHANGED sftpClients

\* GetSFTPAndRealPath returns conn and the real path; su.SftpRoot is rewritten
GetReturns(p, conn, home, susNow, cache, fromCache) ==
    LET c == [call[p] EXCEPT !.hit = fromCache, !.up = Alive(conn)]
        root == susNow[c.su].SftpRoot
    IN  /\ call' = [call EXCEPT ![p] = AfterGet(c, conn, RealPath(root, home, CurPath(c)))]
        /\ sus' = [susNow EXCEPT ![c.su].SftpRoot = SftpRootAfter(root)]
        /\ mu' = None
        /\ sftpClients' = cache

\* GetSFTPAndRealPath: the mutex is taken; on a cache hit the call returns at
\* once, on a miss it goes on into GetSftpClient with the mutex held
GetSFTPAndRealPath(p) ==
    /\ call[p].pc = "get"
    /\ MuFree
    /\ LET id == sus[call[p].su].ID
       IN  IF CacheHit(id)
           THEN GetReturns(p, sftpClients[id].sess, sftpClients[id].home, sus, sftpClients,
                           TRUE)
           ELSE /\ mu' = p
                /\ call' = [call EXCEPT ![p].pc = "auth"]
                /\ UNCHANGED <<sus, sftpClients>>
    /\ UNCHANGED <<nodeVars, dirSystemUsers, adOnce, suMaps, adFetches, cfgVars,
                   opsLeft, adClosed, sshCache, clients, sessions, auditVars>>

(***************************************************************************)
(* AssetDir.GetSftpClient, getCacheSftpConn, getNewSftpConn                *)
(* Every call out of the process (directory service, SSH handshake,        *)
(* session, SFTP subsystem, Getwd) is a step of its own whose outcome the  *)
(* environment decides.  ad.mu is held by the caller throughout.           *)
(*                                                                         *)
(* A session is kept until it has been released and no waiter is left to   *)
(* release it again; an SSH client is kept while the cache, a session or a *)
(* call refers to it.  Numbers of dropped sessions and clients are reused. *)
(***************************************************************************)
UserU == <<"u">>

NewSession(c) ==
    [client |-> c, wrapped |-> FALSE, ended |-> FALSE, sessClosed |-> FALSE,
     waiter |-> "none", released |-> 0]

Restrict(f, S) == [x \in DOMAIN f \cap S |-> f[x]]

FreshNumber(used) ==
    CHOOSE n \in 1..(Cardinality(used) + 1) :
        n \notin used /\ \A m \in 1..(n - 1) : m \in used

FreshSession ==
    FreshNumber(DOMAIN sessions
                \cup {sftpClients[id].sess : id \in DOMAIN sftpClients}
                \cup {call[p].conn1 : p \in Procs} \cup {call[p].conn2 : p \in Procs})

\* the SSH clients something still refers to
Referenced(cs, cache, ss, calls) ==
    Restrict(cs, {e.client : e \in cache} \cup {ss[s].client : s \in DOMAIN ss}
                 \cup {calls[p].client : p \in Procs})

\* a session leaves the model once released with no waiter pending
Settle(ss, s) ==
    IF ss[s].released = 1 /\ ss[s].waiter # "armed"
    THEN Restrict(ss, DOMAIN ss \ {s})
    ELSE ss

\* sshClient.ReleaseSession(sess)
ReleaseSession(ss, s) == Settle([ss EXCEPT ![s].released = @ + 1], s)

\* NewSftpConn(sess) failed: _ = sess.Close(); sshClient.ReleaseSession(sess)

\* a failed wrap that closes the session and does not release it
WrapFailed_NoRelease(ss, s) == [ss EXCEPT ![s].sessClosed = TRUE]

WrapFailed(ss, s) == ReleaseSession([ss EXCEPT ![s].sessClosed = TRUE], s)

\* a setup that starts no waiter
ArmWaiter_Forgotten(ss, s) == [ss EXCEPT ![s].wrapped = TRUE]

\* go func() { _ = sftpClient.Wait(); sshClient.ReleaseSession(sess) }()
ArmWaiter(ss, s) == [ss EXCEPT ![s].wrapped = TRUE, ![s].waiter = "armed"]

\* getCacheSftpConn, Getwd failed: _ = sftpClient.Close(); _ = sess.Close()

ReuseGetwdFailed(ss, s) ==
    IF s \in DOMAIN ss
    THEN [ss EXCEPT ![s].ended = TRUE, ![s].sessClosed = TRUE]
    ELSE ss

\* getNewSftpConn, Getwd failed: _ = sftpClient.Close()
NewGetwdFailed(ss, s) ==
    IF s \in DOMAIN ss THEN [ss EXCEPT ![s].ended = TRUE] ELSE ss

brokerFrame == <<nodeVars, dirSystemUsers, adOnce, suMaps, adFetches, cfgVars,
                 opsLeft, adClosed, auditVars>>

InBroker(p, pc) == call[p].pc = pc /\ mu = p

\* GetSftpClient: the secret is fetched when the credential carries none
GetSftpClientAuth(p) ==
    /\ InBroker(p, "auth")
    /\ LET i == call[p].su
           next == IF reuse THEN "reuseLookup" ELSE "newClient"
       IN  IF sus[i].hasSecret
           THEN /\ call' = [call EXCEPT ![p].pc = next]
                /\ UNCHANGED <<sus, mu, sftpClients>>
           ELSE \E ok \in BOOLEAN :
                IF ok
                THEN /\ sus' = [sus EXCEPT ![i].Username = UserU, ![i].hasSecret = TRUE]
                     /\ call' = [call EXCEPT ![p].pc = next]
                     /\ UNCHANGED <<mu, sftpClients>>
                ELSE GetFails(p, sus)
    /\ UNCHANGED <<brokerFrame, sshCache, clients, sessions>>

\* getCacheSftpConn: searchSSHClientFromCache matches on the key without the
\* username and hands the username of the client found to the credential;
\* GetClientFromCache matches on the whole key
getCacheSftpConnLookup(p) ==
    /\ InBroker(p, "reuseLookup")
    /\ LET i == call[p].su
           found == {e \in sshCache :
                        /\ e.id = sus[i].ID
                        /\ sus[i].Username # Empty => e.username = sus[i].Username}
       IN  IF found = {}
           THEN /\ call' = [call EXCEPT ![p].pc = "newClient"]
                /\ UNCHANGED sus
           ELSE \E e \in found :
                /\ call' = [call EXCEPT ![p].pc = "reuseAcquire", ![p].client = e.client]
                /\ sus' = [sus EXCEPT ![i].Username = e.username]
    /\ UNCHANGED <<brokerFrame, mu, sftpClients, sshCache, clients, sessions>>

\* getCacheSftpConn: sshClient.AcquireSession()
getCacheSftpConnAcquire(p) ==
    /\ InBroker(p, "reuseAcquire")
    /\ \E ok \in BOOLEAN :
       IF ok /\ ~clients[call[p].client].closed
       THEN /\ sessions' = MapPut(sessions, FreshSession, NewSession(call[p].client))
            /\ call' = [call EXCEPT ![p].pc = "reuseWrap", ![p].sess = FreshSession]
       ELSE /\ call' = [call EXCEPT ![p].pc = "newClient", ![p].client = 0]
            /\ UNCHANGED sessions
    /\ UNCHANGED <<brokerFrame, sus, mu, sftpClients, sshCache, clients>>

\* getCacheSftpConn: NewSftpConn(sess); on failure the session is closed and
\* released, on success the waiter is started
getCacheSftpConnWrap(p) ==
    /\ InBroker(p, "reuseWrap")
    /\ LET s == call[p].sess
       IN  \E ok \in BOOLEAN :
           IF ok
           THEN /\ sessions' = ArmWaiter(sessions, s)
                /\ call' = [call EXCEPT ![p].pc = "reuseGetwd"]
           ELSE /\ sessions' = WrapFailed(sessions, s)
                /\ call' = [call EXCEPT ![p].pc = "newClient", ![p].client = 0, ![p].sess = 0]
    /\ UNCHANGED <<brokerFrame, sus, mu, sftpClients, sshCache, clients>>

\* getCacheSftpConn: sftpClient.Getwd(); on failure the SFTP client and the
\* session are closed and the fresh connect follows
getCacheSftpConnGetwd(p) ==
    /\ InBroker(p, "reuseGetwd")
    /\ LET s == call[p].sess
       IN  \E ok \in BOOLEAN :
           IF ok /\ Alive(s)
           THEN /\ GetReturns(p, s, HomeHU, sus,
                              MapPut(sftpClients, sus[call[p].su].ID,
                                     [sess |-> s, home |-> HomeHU]), FALSE)
                /\ UNCHANGED sessions
           ELSE /\ sessions' = ReuseGetwdFailed(sessions, s)
                /\ call' = [call EXCEPT ![p].pc = "newClient", ![p].client = 0, ![p].sess = 0]
                /\ UNCHANGED <<sus, mu, sftpClients>>
    /\ UNCHANGED <<brokerFrame, sshCache, clients>>

\* getNewSftpConn: NewSSHClient(sshAuthOpts...)
getNewSftpConnClient(p) ==
    /\ InBroker(p, "newClient")
    /\ \E ok \in BOOLEAN :
       IF ok
       THEN LET c == FreshNumber(DOMAIN clients)
            IN  /\ clients' = MapPut(clients, c, [username |-> sus[call[p].su].Username,
                                                  id |-> sus[call[p].su].ID,
                                                  closed |-> FALSE])
                /\ call' = [call EXCEPT ![p].pc = "newAcquire", ![p].client = c]
                /\ UNCHANGED <<sus, mu, sftpClients>>
       ELSE /\ GetFails(p, sus)
            /\ UNCHANGED clients
    /\ UNCHANGED <<brokerFrame, sshCache, sessions>>

\* AddClientCache(key, sshClient): the cache keeps one client per key
AddClientCache(cache, id, username, c) ==
    {e \in cache : ~(e.id = id /\ e.username = username)}
        \cup {[id |-> id, username |-> username, client |-> c]}

\* getNewSftpConn: sshClient.AcquireSession(); on failure the SSH client is
\* closed, on success it is put into the cache of SSH clients
getNewSftpConnAcquire(p) ==
    /\ InBroker(p, "newAcquire")
    /\ LET c == call[p].client
       IN  \E ok \in BOOLEAN :
           IF ok
           THEN /\ sessions' = MapPut(sessions, FreshSession, NewSession(c))
                /\ sshCache' = AddClientCache(sshCache, clients[c].id, clients[c].username, c)
                /\ call' = [call EXCEPT ![p].pc = "newWrap", ![p].sess = FreshSession]
                /\ clients' = Referenced(clients, sshCache', sessions', call')
                /\ UNCHANGED <<sus, mu, sftpClients>>
           ELSE /\ GetFails(p, sus)
                /\ clients' = Referenced([clients EXCEPT ![c].closed = TRUE],
                                         sshCache, sessions, call')
                /\ UNCHANGED <<sessions, sshCache>>
    /\ UNCHANGED brokerFrame

\* getNewSftpConn: NewSftpConn(sess)
getNewSftpConnWrap(p) ==
    /\ InBroker(p, "newWrap")
    /\ LET s == call[p].sess
       IN  \E ok \in BOOLEAN :
           IF ok
           THEN /\ sessions' = ArmWaiter(sessions, s)
                /\ call' = [call EXCEPT ![p].pc = "newGetwd"]
                /\ UNCHANGED <<sus, mu, sftpClients, clients>>
           ELSE /\ sessions' = WrapFailed(sessions, s)
                /\ GetFails(p, sus)
                /\ clients' = Referenced(clients, sshCache, sessions', call')
    /\ UNCHANGED <<brokerFrame, sshCache>>

\* getNewSftpConn: sftpClient.Getwd(); on success GetSFTPAndRealPath stores
\* the connection in ad.sftpClients and computes the real path
getNewSftpConnGetwd(p) ==
    /\ InBroker(p, "newGetwd")
    /\ LET s == call[p].sess
       IN  \E ok \in BOOLEAN :
           IF ok /\ Alive(s)
           THEN /\ GetReturns(p, s, HomeHU, sus,
                              MapPut(sftpClients, sus[call[p].su].ID,
                                     [sess |-> s, home |-> HomeHU]), FALSE)
                /\ UNCHANGED sessions
           ELSE /\ sessions' = NewGetwdFailed(sessions, s)
                /\ GetFails(p, sus)
    /\ UNCHANGED <<brokerFrame, sshCache, clients>>

\* the goroutine started after NewSftpConn: Wait returns when the SFTP channel
\* has ended, then the session is released
WaiterRelease(s) ==
    /\ s \in DOMAIN sessions
    /\ sessions[s].waiter = "armed"
    /\ sessions[s].ended
    /\ sessions' = ReleaseSession([sessions EXCEPT ![s].waiter = "done"], s)
    /\ clients' = Referenced(clients, sshCache, sessions', call)
    /\ UNCHANGED <<brokerFrame, call, sus, mu, sftpClients, sshCache>>

\* the remote end or the network ends the SFTP channel of a connection; while
\* a connection is set up, this is the failure of the step under way
RemoteEnd(s) ==
    /\ s \in DOMAIN sessions
    /\ \E id \in DOMAIN sftpClients : sftpClients[id].sess = s
    /\ ~sessions[s].ended
    /\ sessions' = [sessions EXCEPT ![s].ended = TRUE]
    /\ UNCHANGED <<brokerFrame, call, sus, mu, sftpClients, sshCache, clients>>

\* a close that closes no connection
ConnClosed_Nothing(ss, cache) == ss

\* conn.Close() of a cached connection: the SFTP client is closed
ConnClosed(ss, cache) ==
    [s \in DOMAIN ss |->
        IF \E id \in DOMAIN cache : cache[id].sess = s
        THEN [ss[s] EXCEPT !.ended = TRUE]
        ELSE ss[s]]

\* AssetDir.close: under the mutex, every cached connection is closed
AssetDirClose ==
    /\ MuFree
    /\ adOnce = "done"
    /\ ~adClosed
    /\ adClosed' = TRUE
    /\ sessions' = ConnClosed(sessions, sftpClients)
    /\ UNCHANGED <<nodeVars, credVars, cfgVars, call, opsLeft, mu, sftpClients,
                   sshCache, clients, auditVars>>

(***************************************************************************)
(* The remote calls and the audit record                                   *)
(***************************************************************************)
\* an isSuccess that is always true
IsSuccess_Always(err) == TRUE

\* isSuccess := false; if err == nil { isSuccess = true }
IsSuccess(err) == err = "ok"

\* every operation ends in CreateFTPLog
AfterRemote_LogAll(c, err) == [c EXCEPT !.pc = "log", !.err = err, !.stack = <<>>]

\* where an operation goes after its remote call: CreateFTPLog, or the return
AfterRemote(c, err) ==
    IF c.op \in AuditedOps
    THEN [c EXCEPT !.pc = "log", !.err = err, !.stack = <<>>]
    ELSE [c EXCEPT !.pc = "ret", !.err = err, !.stack = <<>>]

opFrame == <<nodeVars, credVars, cfgVars, opsLeft, connVars, logChan>>

\* con.client.Create, MkdirAll, Open, ReadDir, ReadLink, Rename, Remove, Stat
\* or Symlink
RemoteCall(p) ==
    /\ call[p].pc = "remote"
    /\ \E ok \in BOOLEAN :
       LET c == [call[p] EXCEPT !.nRemote = @ + 1]
       IN  call' = [call EXCEPT ![p] =
                       AfterRemote(c, IF ok /\ Alive(c.conn1) THEN "ok" ELSE "RemoteError")]
    /\ UNCHANGED opFrame

\* what a remote directory may list: files, and directories down to MaxTreeDepth
RECURSIVE SeqsUpTo(_, _)
SeqsUpTo(S, n) ==
    IF n = 0 THEN {<<>>}
    ELSE LET shorter == SeqsUpTo(S, n - 1)
         IN  shorter \cup {Append(q, x) : q \in {r \in shorter : Len(r) = n - 1}, x \in S}

Listings(depth) ==
    SeqsUpTo(IF depth <= remote.depth THEN {"f", "d"} ELSE {"f"}, remote.entries)

Top(c) == c.stack[Len(c.stack)]

SetTop(c, frame) == [c EXCEPT !.stack[Len(c.stack)] = frame]

\* the place in the tree of the item the loop is at
ItemAt(frame) == Append(frame.dir, frame.visited + 1)

\* one remote call of the walk is made: kind is the call, target the place of
\* its path in the tree, listing what a ReadDir returned
Called(c, kind, target, ok, listing) ==
    [c EXCEPT !.nRemote = @ + 1,
              !.trace = Append(@, [kind |-> kind, target |-> target,
                                   ok |-> ok, listing |-> listing])]

\* removeDirectoryAll: files, err = conn.ReadDir(path)
RemoveDirectoryAllReadDir(p) ==
    /\ call[p].pc = "rm"
    /\ ~Top(call[p]).listed
    /\ LET c == call[p]
           dir == Top(c).dir
       IN  \E ok \in BOOLEAN :
           IF ok /\ Alive(c.conn1)
           THEN \E l \in Listings(Len(c.stack)) :
                call' = [call EXCEPT ![p] =
                            SetTop(Called(c, "read_dir", dir, TRUE, l),
                                   [Top(c) EXCEPT !.listed = TRUE, !.entries = l])]
           ELSE call' = [call EXCEPT ![p] =
                            AfterRemote(Called(c, "read_dir", dir, FALSE, <<>>),
                                        "RemoteError")]
    /\ UNCHANGED opFrame

\* removeDirectoryAll: the next item is a file, conn.Remove(realPath)
RemoveDirectoryAllRemove(p) ==
    /\ call[p].pc = "rm"
    /\ Top(call[p]).listed
    /\ Top(call[p]).entries # <<>>
    /\ Head(Top(call[p]).entries) = "f"
    /\ LET c == call[p]
           item == ItemAt(Top(c))
       IN  \E ok \in BOOLEAN :
           IF ok /\ Alive(c.conn1)
           THEN call' = [call EXCEPT ![p] =
                            SetTop(Called(c, "remove", item, TRUE, <<>>),
                                   [Top(c) EXCEPT !.entries = Tail(@),
                                                  !.visited = @ + 1])]
           ELSE call' = [call EXCEPT ![p] =
                            AfterRemote(Called(c, "remove", item, FALSE, <<>>),
                                        "RemoteError")]
    /\ UNCHANGED opFrame

\* removeDirectoryAll on an item that is a directory, without the recursive
\* call: the loop goes on to the next item
RemoveDirectoryAllDescend_Skips(p) ==
    /\ call[p].pc = "rm"
    /\ Top(call[p]).listed
    /\ Top(call[p]).entries # <<>>
    /\ Head(Top(call[p]).entries) = "d"
    /\ call' = [call EXCEPT ![p] =
                   SetTop(call[p], [Top(call[p]) EXCEPT !.entries = Tail(@),
                                                        !.visited = @ + 1])]
    /\ UNCHANGED opFrame

\* removeDirectoryAll: the next item is a directory, the recursive call
RemoveDirectoryAllDescend(p) ==
    /\ call[p].pc = "rm"
    /\ Top(call[p]).listed
    /\ Top(call[p]).entries # <<>>
    /\ Head(Top(call[p]).entries) = "d"
    /\ LET c == call[p]
           n == Len(c.stack)
       IN  call' = [call EXCEPT ![p].stack =
                       Append([c.stack EXCEPT ![n].entries = Tail(@),
                                              ![n].visited = @ + 1],
                              NewFrame(ItemAt(Top(c))))]
    /\ UNCHANGED opFrame

\* removeDirectoryAll: return conn.RemoveDirectory(path)
RemoveDirectoryAllRemoveDir(p) ==
    /\ call[p].pc = "rm"
    /\ Top(call[p]).listed
    /\ Top(call[p]).entries = <<>>
    /\ \E ok \in BOOLEAN :
       LET done == ok /\ Alive(call[p].conn1)
           c == Called(call[p], "remove_directory", Top(call[p]).dir, done, <<>>)
       IN  IF done
           THEN IF Len(c.stack) = 1
                THEN call' = [call EXCEPT ![p] = AfterRemote(c, "ok")]
                ELSE call' = [call EXCEPT ![p] =
                                 [c EXCEPT !.stack = SubSeq(@, 1, Len(@) - 1)]]
           ELSE call' = [call EXCEPT ![p] = AfterRemote(c, "RemoteError")]
    /\ UNCHANGED opFrame

\* CreateFTPLog: ad.logChan <- &data goes through when the channel has room
CreateFTPLog(p) ==
    /\ call[p].pc = "log"
    /\ logChan < LogChanCap
    /\ logChan' = logChan + 1
    /\ call' = [call EXCEPT ![p].pc = "ret",
                            ![p].logged = Append(@, IsSuccess(call[p].err))]
    /\ UNCHANGED <<nodeVars, credVars, cfgVars, opsLeft, connVars>>

\* the collector receives a record from the channel
Collect ==
    /\ logChan > 0
    /\ logChan' = logChan - 1
    /\ UNCHANGED <<nodeVars, credVars, cfgVars, call, opsLeft, connVars>>

(***************************************************************************)
(* What the directory service and the client may hand in                   *)
(***************************************************************************)
Actions == {"connect", "upload", "download", "all"}

SystemUser(id, name, protocol, actions, root, username, hasSecret) ==
    [ID |-> id, Name |-> name, Protocol |-> protocol, Actions |-> actions,
     SftpRoot |-> root, Username |-> username, hasSecret |-> hasSecret]

Item(kind, label, disabled, ssh) ==
    [kind |-> kind, label |-> label, disabled |-> disabled, ssh |-> ssh]

ItemUniverse ==
    {Item("node", NameA, FALSE, FALSE), Item("node", NameAU, FALSE, FALSE),
     Item("node", NameASlash, FALSE, FALSE), Item("node", NameA, TRUE, FALSE),
     Item("asset", NameA, FALSE, TRUE), Item("asset", NameAU, FALSE, TRUE),
     Item("asset", NameA, FALSE, FALSE), Item("other", NameA, FALSE, FALSE)}

\* an answer of the directory service: the list, or an error
Answer(list) == [ok |-> TRUE, list |-> list]

Failure == [ok |-> FALSE, list |-> <<>>]

PathEmpty == <<>>
PathRoot == <<"/">>
PathA == <<"/", "a">>
PathAX == <<"/", "a", "/", "x">>
PathBX == <<"/", "b", "/", "x">>
PathXY == <<"/", "x", "/", "y">>
PathUp == <<"/", "a", "/", ".", ".", "/", "x">>
PathSlashX == <<"/", "/", "x">>

InitNodeVars(trees) ==
    /\ nodeTrees = trees
    /\ ndOnce = "new"
    /\ ndSubDirs = EmptyMap
    /\ ndPc = [p \in Procs |-> "idle"]
    /\ ndFetches = 0
    /\ ndAssigns = 0
    /\ ndCalls = 0

\* a remote directory with at most one file in it
FlatTree == [entries |-> 1, depth |-> 0]

\* remote directories of up to MaxEntries items, nested MaxTreeDepth deep
DeepTree == [entries |-> MaxEntries, depth |-> MaxTreeDepth]

InitAssetVars(users, ru, cl, n, tree) ==
    /\ dirSystemUsers = users
    /\ adOnce = "new"
    /\ sus = <<>>
    /\ suMaps = EmptyMap
    /\ adFetches = 0
    /\ reuse = ru
    /\ client = cl
    /\ remote = tree
    /\ opsLeft = n
    /\ call = [p \in Procs |-> IdleCall]
    /\ mu = None
    /\ sftpClients = EmptyMap
    /\ adClosed = FALSE
    /\ sshCache = {}
    /\ clients = EmptyMap
    /\ sessions = EmptyMap
    /\ logChan = 0

CredA == SystemUser("s1", NameA, "ssh", {"all"}, RootData, Empty, FALSE)
CredB == SystemUser("s2", NameB, "ssh", {"connect"}, RootTilde, UserU, TRUE)

\* one credential with any set of actions and any sandbox root
CredWith(actions, root) == SystemUser("s1", NameA, "ssh", actions, root, UserU, TRUE)

Roots == {Empty, RootTilde, RootHome, RootHomeUpper, RootData, RootAbsData, RootSrvData}

Client(ops, paths) == [ops |-> ops, paths |-> paths]

\* a client that sends a sequence of operations to an asset with one or two
\* credentials
SequenceOps == {"stat", "create"}

SequenceInits ==
    {[users |-> Answer(<<CredA>>), client |-> Client(SequenceOps, {PathAX})],
     [users |-> Answer(<<CredA, CredB>>), client |-> Client(SequenceOps, {PathAX, PathBX})]}

\* a client that sends one operation: every set of actions, every sandbox
\* root, every shape of path, every shape of the credential list
SingleInits ==
    {[users |-> Answer(<<CredWith(x, RootData)>>), client |-> Client(Ops, {PathAX})] :
        x \in SUBSET Actions}
    \cup {[users |-> Answer(<<CredWith(x, RootTilde), CredB>>),
           client |-> Client(Ops, {PathAX})] : x \in SUBSET Actions}
    \cup {[users |-> Answer(<<CredWith({"all"}, r)>>),
           client |-> Client({"stat", "create", "symlink"},
                            {PathA, PathAX, PathXY, PathUp, PathSlashX})] :
        r \in Roots}
    \cup {[users |-> u, client |-> Client(Ops, {PathEmpty, PathRoot, PathA, PathAX, PathBX})] :
        u \in {Failure, Answer(<<>>), Answer(<<CredA>>), Answer(<<CredA, CredB>>),
               Answer(<<CredA, SystemUser("s2", NameA, "ssh", {"all"}, RootData, UserU, TRUE)>>),
               Answer(<<CredA, SystemUser("s2", NameB, "rdp", {"all"}, RootData, UserU, TRUE)>>)}}

\* a client that removes a directory whose tree is deep
WalkInit == [users |-> Answer(<<CredA>>), client |-> Client({"remove_directory"}, {PathAX})]

(***************************************************************************)
(* Specifications                                                          *)
(***************************************************************************)
\* the steps of a call once it has started
CallStep(p) ==
    \/ LoadSystemUsersRun(p)
    \/ GetSFTPAndRealPath(p)
    \/ GetSftpClientAuth(p)
    \/ getCacheSftpConnLookup(p)
    \/ getCacheSftpConnAcquire(p)
    \/ getCacheSftpConnWrap(p)
    \/ getCacheSftpConnGetwd(p)
    \/ getNewSftpConnClient(p)
    \/ getNewSftpConnAcquire(p)
    \/ getNewSftpConnWrap(p)
    \/ getNewSftpConnGetwd(p)
    \/ RemoteCall(p)
    \/ RemoveDirectoryAllReadDir(p)
    \/ RemoveDirectoryAllRemove(p)
    \/ RemoveDirectoryAllDescend(p)
    \/ RemoveDirectoryAllRemoveDir(p)
    \/ CreateFTPLog(p)

\* what happens beside the calls
Background ==
    \/ \E s \in DOMAIN sessions : WaiterRelease(s)
    \/ \E s \in DOMAIN sessions : RemoteEnd(s)
    \/ AssetDirClose
    \/ Collect

\* one goroutine serves the requests of the client, one after the other
Next ==
    \/ LoadSystemUsersCall("p1")
    \/ \E op \in client.ops, path \in client.paths, path2 \in client.paths \cup {Empty} :
          Start("p1", op, path, path2)
    \/ CallStep("p1")
    \/ Background

Init ==
    /\ InitNodeVars(Answer(<<>>))
    /\ \/ \E i \in SequenceInits, ru \in BOOLEAN :
             InitAssetVars(i.users, ru, i.client, MaxOps, FlatTree)
       \/ \E i \in SingleInits :
             InitAssetVars(i.users, TRUE, i.client, 1, FlatTree)
       \/ InitAssetVars(WalkInit.users, TRUE, WalkInit.client, 1, DeepTree)

Spec == Init /\ [][Next]_vars

\* a client that uploads files one after the other over fresh connections,
\* while the collector receives the audit records or does not
AuditStep(p) ==
    \/ LoadSystemUsersCall(p)
    \/ LoadSystemUsersRun(p)
    \/ \E op \in client.ops, path \in client.paths : Start(p, op, path, Empty)
    \/ GetSFTPAndRealPath(p)
    \/ GetSftpClientAuth(p)
    \/ getNewSftpConnClient(p)
    \/ getNewSftpConnAcquire(p)
    \/ getNewSftpConnWrap(p)
    \/ getNewSftpConnGetwd(p)
    \/ RemoteCall(p)
    \/ CreateFTPLog(p)

NextAudit ==
    \/ AuditStep("p1")
    \/ Collect

InitAudit ==
    /\ InitNodeVars(Answer(<<>>))
    /\ InitAssetVars(Answer(<<CredA, CredB>>), FALSE,
                     Client({"create", "open"}, {PathAX}), MaxOps + LogChanCap, FlatTree)

\* the goroutine that serves a request goes on whenever it can: the Go
\* scheduler runs every runnable goroutine.  Nothing makes the collector
\* receive.
SpecAudit == InitAudit /\ [][NextAudit]_vars /\ WF_vars(AuditStep("p1"))

\* the goroutines of the server call the same AssetDir at the same time
ConcStep(p) ==
    \/ LoadSystemUsersCall(p)
    \/ LoadSystemUsersRun(p)
    \/ LoadSystemUsersWake(p)
    \/ \E op \in client.ops, path \in client.paths : Start(p, op, path, Empty)
    \/ GetSFTPAndRealPath(p)
    \/ GetSftpClientAuth(p)
    \/ getCacheSftpConnLookup(p)
    \/ getCacheSftpConnAcquire(p)
    \/ getCacheSftpConnWrap(p)
    \/ getCacheSftpConnGetwd(p)
    \/ getNewSftpConnClient(p)
    \/ getNewSftpConnAcquire(p)
    \/ getNewSftpConnWrap(p)
    \/ getNewSftpConnGetwd(p)
    \/ RemoteCall(p)
    \/ CreateFTPLog(p)

NextConc ==
    \/ \E p \in Procs : ConcStep(p)
    \/ Background

ConcurrentOps == {"stat", "create"}

InitConc ==
    /\ InitNodeVars(Answer(<<>>))
    /\ \E users \in {Answer(<<CredA>>), Answer(<<CredA, CredB>>)}, ru \in BOOLEAN :
          InitAssetVars(users, ru, Client(ConcurrentOps, {PathAX}), MaxOps, FlatTree)

SpecConc == InitConc /\ [][NextConc]_vars

\* a client stats files under one credential while the server may close the
\* AssetDir (AssetDir.close, called by NodeDir.close, SearchResultDir.close
\* and SearchResultDir.SetSubDirs) and the remote side may end a channel
CloseStep(p) ==
    \/ LoadSystemUsersCall(p)
    \/ LoadSystemUsersRun(p)
    \/ \E op \in client.ops, path \in client.paths : Start(p, op, path, Empty)
    \/ GetSFTPAndRealPath(p)
    \/ GetSftpClientAuth(p)
    \/ getCacheSftpConnLookup(p)
    \/ getCacheSftpConnAcquire(p)
    \/ getCacheSftpConnWrap(p)
    \/ getCacheSftpConnGetwd(p)
    \/ getNewSftpConnClient(p)
    \/ getNewSftpConnAcquire(p)
    \/ getNewSftpConnWrap(p)
    \/ getNewSftpConnGetwd(p)
    \/ RemoteCall(p)

NextClose ==
    \/ CloseStep("p1")
    \/ \E s \in DOMAIN sessions : WaiterRelease(s)
    \/ \E s \in DOMAIN sessions : RemoteEnd(s)
    \/ AssetDirClose

InitClose ==
    /\ InitNodeVars(Answer(<<>>))
    /\ InitAssetVars(Answer(<<CredA, CredB>>), TRUE,
                     Client({"stat"}, {PathAX, PathBX}), MaxOps, FlatTree)

\* the numbers the sessions of MaxOps operations can carry: an operation
\* acquires at most one session on a cached SSH client and one on a new one
SessionIds == 1..(2 * MaxOps)

\* each waiter is a goroutine of its own, blocked in sftpClient.Wait(); once
\* the channel has ended it is runnable and the Go scheduler runs it
SpecClose ==
    /\ InitClose
    /\ [][NextClose]_vars
    /\ \A s \in SessionIds : WF_vars(WaiterRelease(s))

\* two goroutines stat files under two credentials of the same AssetDir,
\* over fresh connections
MutexStep(p) ==
    \/ LoadSystemUsersCall(p)
    \/ LoadSystemUsersRun(p)
    \/ LoadSystemUsersWake(p)
    \/ \E op \in client.ops, path \in client.paths : Start(p, op, path, Empty)
    \/ GetSFTPAndRealPath(p)
    \/ GetSftpClientAuth(p)
    \/ getNewSftpConnClient(p)
    \/ getNewSftpConnAcquire(p)
    \/ getNewSftpConnWrap(p)
    \/ getNewSftpConnGetwd(p)
    \/ RemoteCall(p)

NextMutex == \E p \in Procs : MutexStep(p)

InitMutex ==
    /\ InitNodeVars(Answer(<<>>))
    /\ InitAssetVars(Answer(<<CredA, CredB>>), FALSE,
                     Client({"stat"}, {PathAX, PathBX}), MaxOps + 1, FlatTree)

SpecMutex == InitMutex /\ [][NextMutex]_vars

\* the goroutines of the server list the same NodeDir at the same time, and
\* an AssetDir under it loads its credentials
NextNode ==
    \/ \E p \in Procs : LoadNodeAssetCall(p)
    \/ \E p \in Procs : LoadNodeAssetRun(p)
    \/ \E p \in Procs : LoadNodeAssetWake(p)
    \/ LoadSystemUsersCall("p1")
    \/ LoadSystemUsersRun("p1")

CredentialUniverse ==
    {SystemUser("s1", NameA, "ssh", {"all"}, RootData, UserU, TRUE),
     SystemUser("s2", NameAU, "ssh", {"all"}, RootData, UserU, TRUE),
     SystemUser("s3", NameASlash, "ssh", {"all"}, RootData, UserU, TRUE),
     SystemUser("s4", NameA, "rdp", {"all"}, RootData, UserU, TRUE)}

InitNode ==
    \/ /\ \E trees \in {Failure} \cup {Answer(l) : l \in SeqsUpTo(ItemUniverse, MaxItems)} :
             InitNodeVars(trees)
       /\ InitAssetVars(Answer(<<CredA>>), TRUE, Client({}, {}), 0, FlatTree)
    \/ /\ InitNodeVars(Answer(<<>>))
       /\ \E users \in {Failure}
                       \cup {Answer(l) : l \in SeqsUpTo(CredentialUniverse, MaxItems)} :
             InitAssetVars(users, TRUE, Client({}, {}), 0, FlatTree)

SpecNode == InitNode /\ [][NextNode]_vars

(***************************************************************************)
(* Properties                                                              *)
(***************************************************************************)
\* the calls that have started an operation
Started == {p \in Procs : call[p].op # None}

\* where a call is while GetSftpClient sets a connection up
BrokerPcs == {"auth", "reuseLookup", "reuseAcquire", "reuseWrap", "reuseGetwd",
              "newClient", "newAcquire", "newWrap", "newGetwd"}

\* the operations of the design that change or transfer remote data
MutatingOps == {"create", "open", "mkdir_all", "remove", "remove_directory",
                "rename", "symlink"}

\* the action the design requires for each operation
RequiredAction(op) ==
    CASE op \in {"create", "mkdir_all", "remove", "remove_directory", "rename", "symlink"}
            -> "upload"
      [] op = "open" -> "download"
      [] OTHER -> "connect"

Permits(actions, action) == action \in actions \/ "all" \in actions

\* C1: an operation on a credential whose actions hold neither the action
\* the operation requires nor "all" stops with PermissionDenied and makes no
\* remote call.  Rename breaks it: it goes on to the connection and the
\* remote call whatever the actions are.
C1_Authorization ==
    \A p \in Started :
        LET c == call[p]
        IN  (c.su # 0 /\ ~Permits(sus[c.su].Actions, RequiredAction(c.op)))
                => (c.pc = "ret" /\ c.err = "PermissionDenied" /\ c.nRemote = 0)

\* C2: a mutating or transferring operation that returns after its remote
\* stage has emitted exactly one audit record, whose is_success says whether
\* the remote error was nil; no invocation emits more than one record.
C2_AuditFaithful ==
    \A p \in Started :
        LET c == call[p]
        IN  /\ Len(c.logged) <= 1
            /\ (c.pc = "ret" /\ c.op \in MutatingOps /\ c.nRemote > 0)
                   => c.logged = <<c.err = "ok">>
            /\ (c.pc = "ret" /\ c.op \in MutatingOps /\ c.err = "ok")
                   => c.logged = <<TRUE>>

\* a mutating operation whose remote call failed has returned with the one
\* record is_success=false
C2_Witness ==
    \E p \in Started :
        /\ call[p].pc = "ret"
        /\ call[p].op = "create"
        /\ call[p].err = "RemoteError"
        /\ call[p].nRemote = 1
        /\ call[p].logged = <<FALSE>>

\* what C3 has in common with its original statement: read_dir, read_link
\* and stat emit no record, and no operation emits one before a remote call
NoAuditWithoutMutation ==
    \A p \in Started :
        LET c == call[p]
        IN  /\ c.op \in {"read_dir", "read_link", "stat"} => c.logged = <<>>
            /\ c.nRemote = 0 => c.logged = <<>>
            /\ (c.pc = "ret" /\ c.err \in {"PermissionDenied", "NoCredential", "NoSuchFile",
                                           "OpUnsupported", "ConnectionLost"})
                   => c.logged = <<>>

\* C3 as stated: no record from read_dir, read_link, stat or a rejected
\* operation, and as many records as remote calls made by the mutating
\* operations.  An invocation never has more records than remote calls, so
\* the counts over a sequence are equal exactly when they are equal for each
\* invocation that has returned.
C3_RecordsEqualRemoteCalls ==
    /\ NoAuditWithoutMutation
    /\ \A p \in Started :
           (call[p].pc = "ret" /\ call[p].op \in MutatingOps)
               => Len(call[p].logged) = call[p].nRemote

\* C3 amended: no record from read_dir, read_link, stat or a rejected
\* operation, and one record for each invocation of a mutating operation
\* that reached its remote stage, however many remote calls it made.
C3_OneRecordPerInvocation ==
    /\ NoAuditWithoutMutation
    /\ \A p \in Started :
           (call[p].pc = "ret" /\ call[p].op \in MutatingOps)
               => Len(call[p].logged) = IF call[p].nRemote > 0 THEN 1 ELSE 0

\* a remove_directory has returned after several remote calls with one record
C3_Witness ==
    \E p \in Started :
        /\ call[p].pc = "ret"
        /\ call[p].op = "remove_directory"
        /\ call[p].nRemote >= 2
        /\ Len(call[p].logged) = 1

\* the credential id a call works with
CallID(c) == sus[c.su].ID

\* C4: a connection stored for a credential id is never replaced; while it
\* is stored no call on that credential is in GetSftpClient (no secret is
\* fetched, no SSH client built, no session acquired); and every connection
\* a call holds for the credential is the stored one.
C4_CacheReuse ==
    /\ [](\A p \in Started :
             LET c == call[p]
             IN  /\ (c.su # 0 /\ c.pc \in BrokerPcs) => CallID(c) \notin DOMAIN sftpClients
                 /\ (c.su # 0 /\ c.conn1 # 0) =>
                        /\ CallID(c) \in DOMAIN sftpClients
                        /\ sftpClients[CallID(c)].sess = c.conn1
                 /\ (c.su # 0 /\ c.conn2 # 0) =>
                        /\ CallID(c) \in DOMAIN sftpClients
                        /\ sftpClients[CallID(c)].sess = c.conn2)
    /\ [][\A id \in DOMAIN sftpClients :
             id \in DOMAIN sftpClients' /\ sftpClients'[id] = sftpClients[id]]_vars

\* a stat is served by the connection an earlier operation stored
C4_Witness ==
    \E p \in Started :
        /\ call[p].op = "stat"
        /\ call[p].pc = "remote"
        /\ call[p].hit
        /\ sftpClients[CallID(call[p])].sess = call[p].conn1

\* the sessions of a credential id whose SFTP client was started and is up
LiveConnections(id) ==
    {s \in DOMAIN sessions :
        /\ sessions[s].wrapped
        /\ ~sessions[s].ended
        /\ clients[sessions[s].client].id = id}

\* C5: at most one call is inside GetSftpClient at a time, hence at most one
\* fresh setup per credential; the credential has at most one connection up,
\* and the calls that hold a connection for the same credential hold the
\* same one.
C5_OneSetup ==
    /\ Cardinality({p \in Procs : call[p].pc \in BrokerPcs}) <= 1
    /\ \A p \in Procs : call[p].pc \in BrokerPcs => mu = p
    /\ \A i \in 1..Len(sus) : Cardinality(LiveConnections(sus[i].ID)) <= 1
    /\ \A p, q \in Started :
           (call[p].su = call[q].su /\ call[p].conn1 # 0 /\ call[q].conn1 # 0)
               => call[p].conn1 = call[q].conn1

\* two first operations on the same credential at the same time: one has
\* set the connection up and uses it, the other was served the same one
C5_Witness ==
    \E p, q \in Started :
        /\ p # q
        /\ opsLeft = 0
        /\ call[p].su = call[q].su
        /\ call[p].pc = "remote" /\ ~call[p].hit
        /\ call[q].pc = "remote" /\ call[q].hit
        /\ call[p].conn1 = call[q].conn1

\* C6: a session that has not been released is still being set up or has a
\* waiter that will release it; a session is never released with a waiter
\* left that would release it again; so when no setup is under way and
\* every waiter has run, no session is left unreleased.
C6_ReferenceBalance ==
    /\ \A s \in DOMAIN sessions :
           /\ sessions[s].released = 0
           /\ \/ sessions[s].waiter = "armed"
              \/ \E p \in Procs : call[p].sess = s /\ call[p].pc \in {"reuseWrap", "newWrap"}
    /\ (/\ \A p \in Procs : call[p].pc \notin BrokerPcs
        /\ \A s \in DOMAIN sessions : sessions[s].waiter # "armed")
           => sessions = EmptyMap

\* the home-directory query of a reused client has failed: the session is
\* closed, its channel has ended and the waiter is about to release it
C6_Witness ==
    \E s \in DOMAIN sessions :
        /\ sessions[s].ended
        /\ sessions[s].sessClosed
        /\ sessions[s].waiter = "armed"
        /\ \E p \in Procs : call[p].pc = "newClient"

\* a call whose GetSFTPAndRealPath has returned no connection
ConnMissing(c) ==
    /\ c.su # 0
    /\ c.err # "PermissionDenied"
    /\ \/ c.op \in TwoPathOps /\ c.which = 2 /\ c.conn1 = 0
       \/ c.pc = "ret" /\ c.conn1 = 0
       \/ c.pc = "ret" /\ c.op \in TwoPathOps /\ c.conn2 = 0

\* C7: an operation the broker gave no connection returns ConnectionLost
\* without a remote call and without an audit record.  Rename and Symlink
\* break it: they go on to the second lookup, and then answer OpUnsupported
\* or use the connection that is missing.
C7_ConnectionLost ==
    \A p \in Started :
        LET c == call[p]
        IN  ConnMissing(c) =>
                /\ c.pc = "ret"
                /\ c.err = "ConnectionLost"
                /\ c.nRemote = 0
                /\ c.logged = <<>>

\* C8: one fetch at most, exactly one once a caller has returned; nobody
\* returns before the load has finished; nd.subDirs is assigned at most once.
C8_SingleLoad ==
    /\ ndFetches <= 1
    /\ ndAssigns <= 1
    /\ \A p \in Procs : ndPc[p] = "ret" => (ndOnce = "done" /\ ndFetches = 1)

\* a caller has returned from the load while a caller that came during the
\* load is about to return, and a third call has been made
C8_Witness ==
    \E p, q \in Procs :
        /\ ndPc[p] = "ret"
        /\ ndPc[q] = "wait"
        /\ ndFetches = 1
        /\ ndCalls >= 2

\* the items of the design that are shown: enabled nodes, enabled assets
\* that support ssh
Shown(items) ==
    {i \in 1..Len(items) :
        /\ ~items[i].disabled
        /\ \/ items[i].kind = "node"
           \/ items[i].kind = "asset" /\ items[i].ssh}

\* C9: once loaded, each child of the NodeDir is stored under its own name,
\* the children are the shown items, each under a name of its own; the
\* credential map has a folder name of its own for each ssh credential.
C9_NameUniqueness ==
    /\ (ndOnce = "done" /\ nodeTrees.ok) =>
           /\ \A k \in DOMAIN ndSubDirs : ndSubDirs[k].folderName = k
           /\ {ndSubDirs[k].item : k \in DOMAIN ndSubDirs} = Shown(nodeTrees.list)
           /\ Cardinality(DOMAIN ndSubDirs) = Cardinality(Shown(nodeTrees.list))
    /\ (adOnce = "done" /\ dirSystemUsers.ok) =>
           LET ssh == {i \in 1..Len(dirSystemUsers.list) :
                          dirSystemUsers.list[i].Protocol = "ssh"}
           IN  /\ {suMaps[k] : k \in DOMAIN suMaps} = ssh
               /\ Cardinality(DOMAIN suMaps) = Cardinality(ssh)

\* three items of the same name, the last one already ending in "_", are
\* listed under three names
C9_Witness ==
    /\ ndOnce = "done"
    /\ nodeTrees.ok
    /\ Len(nodeTrees.list) = 3
    /\ nodeTrees.list[1].label = NameA
    /\ nodeTrees.list[2].label = NameA
    /\ nodeTrees.list[3].label = NameAU
    /\ DOMAIN ndSubDirs = {NameA, NameAU, <<"a", "_", "_">>}

\* the real path of the design for sftp_root R, home directory home and
\* sandbox path P
SandboxPath(R, home, P) ==
    IF ToLower(R) \in {<<>>, <<"~">>, <<"h", "o", "m", "e">>}
    THEN FilepathJoin(home, TrimPrefix(P))
    ELSE FilepathJoin(IF HasSlashPrefix(R) THEN R ELSE <<"/">> \o R, TrimPrefix(P))

\* the sftp_root the directory service gave for the credential of a call
GivenRoot(c) == dirSystemUsers.list[c.su].SftpRoot

\* C10: every real path a call was given is the path of the design for the
\* sftp_root the directory service gave, whatever was resolved before; the
\* two examples of the design come out as written.
C10_SandboxRewrite ==
    /\ \A p \in Started :
           LET c == call[p]
           IN  /\ c.conn1 # 0 =>
                      c.real1 = SandboxPath(GivenRoot(c), sftpClients[CallID(c)].home, c.path1)
               /\ c.conn2 # 0 =>
                      c.real2 = SandboxPath(GivenRoot(c), sftpClients[CallID(c)].home, c.path2)
               /\ (c.conn1 # 0 /\ GivenRoot(c) = RootData /\ c.path1 = <<"x", "/", "y">>)
                      => c.real1 = <<"/", "d", "a", "t", "a", "/", "x", "/", "y">>
               /\ (c.conn1 # 0 /\ GivenRoot(c) = RootTilde /\ c.path1 = <<"x">>)
                      => c.real1 = <<"/", "h", "/", "u", "/", "x">>
    /\ SandboxPath(RootData, HomeHU, <<"/", "x", "/", "y">>)
           = <<"/", "d", "a", "t", "a", "/", "x", "/", "y">>
    /\ SandboxPath(RootTilde, HomeHU, <<"/", "x">>) = <<"/", "h", "/", "u", "/", "x">>

\* a path is resolved again after su.SftpRoot was rewritten from "data" to
\* "/data", and comes out the same
C10_Witness ==
    \E p \in Started :
        /\ call[p].op = "stat"
        /\ call[p].pc = "remote"
        /\ call[p].hit
        /\ GivenRoot(call[p]) = RootData
        /\ sus[call[p].su].SftpRoot = RootAbsData
        /\ call[p].real1 = <<"/", "d", "a", "t", "a", "/", "x">>

\* the sequence P of the design for a path an operation was called with
DesignP(path) == Split(TrimPrefix(path))

\* the operations of the design that create or delete remote entries
DestructiveOps == {"create", "mkdir_all", "remove", "remove_directory"}

\* more than one credential is loaded
MultiCredential == Cardinality(DOMAIN suMaps) > 1

\* C11: with more than one credential, a destructive operation whose path
\* is empty or names only a loaded credential folder, so that nothing is left
\* for the sandbox path, is back with PermissionDenied and has made no remote
\* call.  Only the wholly empty path is refused: "/a" resolves credential a
\* and goes on to the connection with the sandbox root as its real path.
C11_SandboxRootRefused ==
    \A p \in Started :
        LET c == call[p]
            P == DesignP(c.arg1)
        IN  (/\ MultiCredential
             /\ c.op \in DestructiveOps
             /\ Len(P) = 1
             /\ (P[1] = <<>> \/ P[1] \in DOMAIN suMaps))
                => (c.pc = "ret" /\ c.err = "PermissionDenied" /\ c.nRemote = 0)

\* remove_directory("/a") with credentials a and b has listed the sandbox
\* root /data of credential a on the remote side
C11_Witness ==
    \E p \in Started :
        /\ MultiCredential
        /\ call[p].op = "remove_directory"
        /\ call[p].arg1 = PathA
        /\ call[p].nRemote > 0
        /\ call[p].real1 = <<"/", "d", "a", "t", "a">>

\* a rename or symlink whose two paths begin with different segments while
\* more than one credential is loaded
CrossCredential(c) ==
    /\ MultiCredential
    /\ c.op \in TwoPathOps
    /\ DesignP(c.arg1)[1] # DesignP(c.arg2)[1]

\* C12: with more than one credential, a rename whose two paths begin with
\* different segments is back with NoSuchFile, and such a symlink with
\* NoCredential; it has resolved no credential, holds no connection, found
\* and built none, made no remote call and sent no audit record, and the
\* step that calls it leaves the connections, the SSH client cache, the
\* sessions and the audit channel as they were.
C12_CrossCredentialRefused ==
    /\ [](\A p \in Started :
              LET c == call[p]
              IN  CrossCredential(c) =>
                      /\ c.pc = "ret"
                      /\ c.err = (IF c.op = "rename" THEN "NoSuchFile" ELSE "NoCredential")
                      /\ c.su = 0 /\ c.conn1 = 0 /\ c.conn2 = 0
                      /\ ~c.hit /\ c.client = 0 /\ c.sess = 0
                      /\ c.nRemote = 0
                      /\ c.logged = <<>>)
    /\ [][\A p \in Procs :
              (call'[p] # call[p] /\ CrossCredential(call'[p]))
                  => UNCHANGED <<connVars, auditVars>>]_vars

\* rename("/a/x", "/b/x") with credentials a and b is back with NoSuchFile
C12_Witness ==
    \E p \in Started :
        /\ MultiCredential
        /\ call[p].op = "rename"
        /\ call[p].arg1 = PathAX
        /\ call[p].arg2 = PathBX
        /\ DOMAIN suMaps = {NameA, NameB}
        /\ call[p].pc = "ret"
        /\ call[p].err = "NoSuchFile"

\* the remote call that removes an item of the given kind
RemoverOf(kind) == IF kind = "f" THEN "remove" ELSE "remove_directory"

\* the directory a place in the tree lies in
ParentOf(target) == SubSeq(target, 1, Len(target) - 1)

\* t[j] is the successful read_dir of directory dir
ListedAt(t, j, dir) == t[j].kind = "read_dir" /\ t[j].target = dir /\ t[j].ok

\* the order of the remote calls t a recursive remove has made so far
WalkInOrder(t) ==
    \* the walk begins by reading the root, and only its last call may fail
    /\ Len(t) > 0 => (t[1].kind = "read_dir" /\ t[1].target = <<>>)
    /\ \A i \in 1..(Len(t) - 1) : t[i].ok
    \* nothing below the root is touched before its directory was read, and
    \* it is touched by the call for its kind
    /\ \A i \in 1..Len(t) :
           t[i].target # <<>> =>
               \E j \in 1..(i - 1) :
                   /\ ListedAt(t, j, ParentOf(t[i].target))
                   /\ t[i].target[Len(t[i].target)] \in 1..Len(t[j].listing)
                   /\ LET kind == t[j].listing[t[i].target[Len(t[i].target)]]
                      IN  t[i].kind = IF kind = "f" THEN "remove"
                                      ELSE IF \E k \in j..(i - 1) :
                                                 ListedAt(t, k, t[i].target)
                                           THEN "remove_directory" ELSE "read_dir"
    \* a directory is removed only after it was read and every item it listed
    \* was removed
    /\ \A i \in 1..Len(t) :
           t[i].kind = "remove_directory" =>
               \E j \in 1..(i - 1) :
                   /\ ListedAt(t, j, t[i].target)
                   /\ \A k \in 1..Len(t[j].listing) :
                          \E m \in (j + 1)..(i - 1) :
                              /\ t[m].kind = RemoverOf(t[j].listing[k])
                              /\ t[m].target = Append(t[i].target, k)
                              /\ t[m].ok
    \* the root is removed by the last call
    /\ \A i \in 1..Len(t) :
           (t[i].kind = "remove_directory" /\ t[i].target = <<>>) => i = Len(t)

C14_ModeTellsLayer ==
    adOnce = "done" =>
        /\ Mode.dir
        /\ Mode.perm = "0644" <=> IsUniqueSu.ok
        /\ Mode.perm = "0444" <=> ~IsUniqueSu.ok

\* the credentials are loaded and there is none: the layer shows and the
\* mode says 0644
C14_Witness ==
    /\ adOnce = "done"
    /\ dirSystemUsers.ok
    /\ DOMAIN suMaps = {}
    /\ ~IsUniqueSu.ok
    /\ Mode.perm = "0644"

\* the fetch of loadSystemUsers has failed and the load is over
LoadFailed == adOnce = "done" /\ ~dirSystemUsers.ok

\* what an operation answers when no credential is loaded
AnswerWithoutCredentials(c) ==
    IF c.op = "rename" THEN
        IF DesignP(c.arg1)[1] # DesignP(c.arg2)[1] THEN "NoSuchFile" ELSE "NoCredential"
    ELSE IF c.op = "symlink" THEN "NoCredential"
    ELSE IF DesignP(c.arg1) # <<Empty>> THEN "NoCredential"
    ELSE IF c.op \in {"stat", "read_dir"} THEN "ok"
    ELSE IF c.op = "read_link" THEN "OpUnsupported"
    ELSE "PermissionDenied"

\* C15 as stated: after a failed fetch in loadSystemUsers the credential map
\* is empty and every operation, whatever its path, is back with
\* NoCredential.  The operations on the empty path and the rename across
\* first segments answer before any credential is looked up.
C15_EveryOpNoCredential ==
    LoadFailed =>
        /\ suMaps = EmptyMap
        /\ \A p \in Started : call[p].pc = "ret" /\ call[p].err = "NoCredential"

\* C15, amended: after a failed fetch in loadSystemUsers the credential map
\* is empty and no operation gets a credential, a connection or a remote
\* call; it is back with NoCredential whenever its path has a first segment
\* (and, for rename, the two first segments agree), and otherwise with what
\* the empty path or the cross-credential rename gives.
C15_NoCredentialAfterFailedLoad ==
    LoadFailed =>
        /\ suMaps = EmptyMap
        /\ \A p \in Started :
               LET c == call[p]
               IN  /\ c.pc = "ret"
                   /\ c.su = 0 /\ c.conn1 = 0 /\ c.conn2 = 0
                   /\ c.nRemote = 0 /\ c.logged = <<>>
                   /\ c.err = AnswerWithoutCredentials(c)

\* after a failed fetch, create("/a/x") is back with NoCredential
C15_Witness ==
    /\ LoadFailed
    /\ \E p \in Started :
           /\ call[p].op = "create"
           /\ call[p].arg1 = PathAX
           /\ call[p].pc = "ret"
           /\ call[p].err = "NoCredential"

\* C16: the send of the audit record does not block: a call that has
\* reached CreateFTPLog goes on to its return, whether or not the collector
\* receives.  ad.logChan <- &data is a plain send: with the channel full and
\* no receiver the call stays in CreateFTPLog.
C16_AuditSendReturns ==
    \A p \in Procs : (call[p].pc = "log") ~> (call[p].pc = "ret")

\* a call stands in CreateFTPLog with the channel full
C16_Witness ==
    \E p \in Started :
        /\ call[p].pc = "log"
        /\ logChan = LogChanCap
        /\ ~ENABLED CreateFTPLog(p)

\* the credential a call is getting the connection for is in ad.sftpClients
OnCachedCredential(c) == c.su # 0 /\ CallID(c) \in DOMAIN sftpClients

\* C17: the asset mutex is not held at a suspension point: no call is in
\* the secret fetch, the handshake, the session acquire, the SFTP wrap or
\* the Getwd of GetSftpClient while it holds ad.mu, and a call for a
\* credential whose connection is cached is never kept from its lookup.
\* GetSFTPAndRealPath locks ad.mu with a deferred unlock and calls
\* GetSftpClient inside, so the whole setup runs under the mutex.
C17_MutexNotAcrossSuspension ==
    /\ \A p \in Procs : call[p].pc \in BrokerPcs => mu # p
    /\ \A q \in Procs :
           (call[q].pc = "get" /\ OnCachedCredential(call[q]))
               => ENABLED GetSFTPAndRealPath(q)

\* one call is in the SSH handshake for credential b and holds ad.mu; another
\* call, for credential a whose connection is cached, cannot do its lookup
C17_Witness ==
    \E p, q \in Started :
        /\ p # q
        /\ call[p].pc = "newClient"
        /\ mu = p
        /\ call[q].pc = "get"
        /\ call[q].su # call[p].su
        /\ OnCachedCredential(call[q])
        /\ ~ENABLED GetSFTPAndRealPath(q)

\* where a call is inside getNewSftpConn
FreshPcs == {"newClient", "newAcquire", "newWrap", "newGetwd"}

\* the connection GetSFTPAndRealPath has handed to the call for the path it
\* was resolving
Handed(before, after) == IF before.which = 1 THEN after.conn1 ELSE after.conn2

\* the step with which getNewSftpConn gives up
FreshConnectFails(p) ==
    /\ call[p].pc \in FreshPcs
    /\ call'[p].pc \notin BrokerPcs
    /\ Handed(call[p], call'[p]) = 0

\* C18: when a step of the fresh connect fails, what it had opened is
\* closed: the SFTP channel of the session is ended, the session is
\* closed, the SSH client it built is closed; no connection is stored in
\* ad.sftpClients and a one-path operation returns ConnectionLost.  Only a
\* failing AcquireSession closes the SSH client: after a failing SFTP wrap or
\* Getwd it stays open in the cache of SSH clients, and a failing Getwd
\* closes the SFTP client but not the session.
C18_FreshConnectCleansUp ==
    [][\A p \in Procs :
          FreshConnectFails(p) =>
              LET c == call[p]
              IN  /\ c.client # 0 =>
                         (c.client \notin DOMAIN clients' \/ clients'[c.client].closed)
                  /\ c.sess # 0 =>
                         (c.sess \notin DOMAIN sessions'
                          \/ (/\ sessions'[c.sess].sessClosed
                              /\ sessions'[c.sess].wrapped => sessions'[c.sess].ended))
                  /\ sftpClients' = sftpClients
                  /\ c.op \notin TwoPathOps => call'[p].err = "ConnectionLost"]_vars

\* the only operation of a client has returned ConnectionLost, no connection
\* is stored, and the SSH client its fresh connect built is still open in
\* the cache of SSH clients with no session on it
C18_Witness ==
    \E p \in Started :
        /\ client.ops = Ops
        /\ call[p].pc = "ret"
        /\ call[p].err = "ConnectionLost"
        /\ sftpClients = EmptyMap
        /\ sessions = EmptyMap
        /\ \E e \in sshCache :
               /\ e.id = sus[call[p].su].ID
               /\ ~clients[e.client].closed

\* where a call is inside getCacheSftpConn: at the lookup, and after it
ReuseSetupPcs == {"reuseAcquire", "reuseWrap", "reuseGetwd"}

ReusePcs == ReuseSetupPcs \cup {"reuseLookup"}

\* the step with which the setup on a cached SSH client gives up
ReuseSetupFails(p) ==
    /\ call[p].pc \in ReuseSetupPcs
    /\ call'[p].pc \notin ReusePcs
    /\ ~(call'[p].pc \notin BrokerPcs /\ Handed(call[p], call'[p]) # 0)

\* C19: when a step of the setup on a cached SSH client fails, the session
\* acquired for it, if any, is released or is ended with the waiter armed
\* that releases it, nothing is stored, and the call goes on, still under
\* the mutex, to the fresh connect; what the call is handed when it leaves
\* the broker from there is the session of the fresh connect or nothing.
\* With reuse disabled no call is ever in getCacheSftpConn.
C19_ReuseFallsThrough ==
    /\ [](~reuse => \A p \in Procs : call[p].pc \notin ReusePcs)
    /\ [][\A p \in Procs :
             /\ ReuseSetupFails(p) =>
                    /\ call'[p].pc = "newClient"
                    /\ mu' = p
                    /\ sftpClients' = sftpClients
                    /\ call[p].sess # 0 =>
                           \/ call[p].sess \notin DOMAIN sessions'
                           \/ /\ sessions'[call[p].sess].ended
                              /\ sessions'[call[p].sess].waiter = "armed"
             /\ (call[p].pc \in FreshPcs /\ call'[p].pc \notin BrokerPcs) =>
                    /\ Handed(call[p], call'[p]) \in {0, call[p].sess}
                    /\ Handed(call[p], call'[p]) # 0 => call[p].pc = "newGetwd"]_vars

\* a call is at the fresh connect although the cache holds an SSH client for
\* its credential: the Getwd on the reused client has failed, its session is
\* closed and the waiter is about to release it
C19_Witness ==
    \E p \in Started :
        /\ reuse
        /\ call[p].pc = "newClient"
        /\ \E e \in sshCache :
               e.id = sus[call[p].su].ID /\ e.username = sus[call[p].su].Username
        /\ \E x \in DOMAIN sessions :
               /\ sessions[x].sessClosed
               /\ sessions[x].ended
               /\ sessions[x].waiter = "armed"

\* C20: a load whose fetch failed is not tried again: the directory
\* service is asked once, the NodeDir has no children and the AssetDir no
\* credentials, and once the failed fetch is made no step, a later call of
\* the load included, makes another fetch or changes the map.
C20_FailedLoadNotRetried ==
    /\ [](~nodeTrees.ok =>
              /\ ndFetches <= 1
              /\ ndSubDirs = EmptyMap
              /\ ndAssigns = 0
              /\ \A p \in Procs : ndPc[p] = "ret" => (ndOnce = "done" /\ ndFetches = 1))
    /\ [](~dirSystemUsers.ok => (adFetches <= 1 /\ suMaps = EmptyMap /\ sus = <<>>))
    /\ [][(~nodeTrees.ok /\ ndFetches >= 1)
             => (ndFetches' = ndFetches /\ ndSubDirs' = ndSubDirs /\ ndOnce' = "done")]_vars
    /\ [][(~dirSystemUsers.ok /\ adFetches >= 1)
             => (adFetches' = adFetches /\ suMaps' = suMaps /\ adOnce' = "done")]_vars

\* the fetch of the NodeDir failed, and at least one call of the load was
\* made after the failed load had finished; still one fetch and no children
C20_Witness ==
    /\ ~nodeTrees.ok
    /\ ndOnce = "done"
    /\ ndCalls >= 3
    /\ \A p \in Procs : ndPc[p] = "ret"
    /\ ndFetches = 1
    /\ ndSubDirs = EmptyMap

\* the session of the connection stored for a credential
StoredSessions == {sftpClients[id].sess : id \in DOMAIN sftpClients}

\* C21: the session of every connection stored in ad.sftpClients, as long
\* as it is not released, is wrapped and has its waiter armed; the step in
\* which the AssetDir is closed leaves the SFTP channel of every stored
\* connection ended; and, the waiters being fair, every session whose
\* channel has ended while its waiter is armed is eventually released.
C21_CloseReleasesSessions ==
    /\ [](/\ DOMAIN sessions \subseteq SessionIds
          /\ \A s \in StoredSessions :
                 s \in DOMAIN sessions =>
                     (sessions[s].wrapped /\ sessions[s].waiter = "armed"))
    /\ [][(adClosed' /\ ~adClosed) =>
             /\ sftpClients' = sftpClients
             /\ \A s \in StoredSessions :
                    s \in DOMAIN sessions' => sessions'[s].ended]_vars
    /\ \A s \in SessionIds :
           (s \in DOMAIN sessions /\ sessions[s].ended /\ sessions[s].waiter = "armed")
               ~> (s \notin DOMAIN sessions)

\* the AssetDir was closed with a connection stored, and the session of that
\* connection has been released by its waiter
C21_Witness ==
    /\ adClosed
    /\ sftpClients # EmptyMap
    /\ \A s \in StoredSessions : s \notin DOMAIN sessions
    /\ sessions = EmptyMap

\* the step in which GetSFTPAndRealPath hands the call a connection
HandsConnection(p) ==
    /\ Handed(call[p], call[p]) = 0
    /\ Handed(call[p], call'[p]) # 0

\* C22: the connection GetSFTPAndRealPath hands to an operation has its
\* SFTP channel up at that moment.  A connection stays in ad.sftpClients
\* when its channel has ended, by the remote side or by AssetDir.close, and
\* the lookup hands it out as it is: the next operation on the credential
\* makes its remote call on the closed connection.
C22_NoClosedConnectionHanded ==
    [][\A p \in Procs :
          HandsConnection(p) => Alive(Handed(call[p], call'[p]))]_vars

\* the remote side ended the channel of a stored connection; a later stat
\* found that connection in ad.sftpClients, was handed it with the channel
\* down, made its remote call on it and got the error
C22_Witness ==
    \E p \in Started :
        /\ ~adClosed
        /\ call[p].op = "stat"
        /\ call[p].hit
        /\ ~call[p].up
        /\ call[p].conn1 # 0
        /\ call[p].pc = "ret"
        /\ call[p].nRemote = 1
        /\ call[p].err = "RemoteError"

\* the step with which GetSFTPAndRealPath returns no connection
GetSFTPAndRealPathFails(p) ==
    /\ call[p].pc \in BrokerPcs
    /\ call'[p].pc \notin BrokerPcs
    /\ Handed(call[p], call'[p]) = 0

\* C23: the step with which GetSFTPAndRealPath fails for a credential
\* leaves ad.sftpClients as it was, with no entry for that credential; and a
\* call that comes to GetSFTPAndRealPath for a credential with no entry goes
\* into GetSftpClient, under the mutex, for a new attempt.
C23_FailureNotCached ==
    /\ [][\A p \in Procs :
             GetSFTPAndRealPathFails(p) =>
                 /\ sftpClients' = sftpClients
                 /\ CallID(call[p]) \notin DOMAIN sftpClients']_vars
    /\ [][\A p \in Procs :
             (/\ call[p].pc = "get"
              /\ call'[p] # call[p]
              /\ CallID(call[p]) \notin DOMAIN sftpClients)
                 => (call'[p].pc = "auth" /\ mu' = p)]_vars

\* the first operation on the only credential got no connection; the second
\* one is in GetSftpClient for a new attempt, and nothing is stored
C23_Witness ==
    \E p \in Started :
        /\ client.ops = SequenceOps
        /\ Len(sus) = 1
        /\ opsLeft = MaxOps - 2
        /\ call[p].pc = "auth"
        /\ sftpClients = EmptyMap

====
